---------------------------- MODULE Spec2Model ----------------------------
(***************************************************************************)
(* Background-video assignment of the VideoGenerator pipeline:             *)
(*   search_videos, getBestVideo, generate_video_url                       *)
(*       (src/utility/video/background_video_generator.py)                 *)
(*   the merge step of generate_video_from_article (src/app.py)            *)
(*                                                                         *)
(* Python values are modelled as follows.                                  *)
(*   str    [chars |-> <<tokens>>]; the token ".hd" stands for the         *)
(*          substring '.hd', every other token for text without '.hd'.     *)
(*          Links are URLs and therefore non-empty.                        *)
(*   None   the record None                                                *)
(*   dict   a record; a missing key is a key outside DOMAIN                *)
(*   list   a sequence; a JSON list or null inside a body is tagged        *)
(*          (JList / JNull) so the two can be told apart                   *)
(***************************************************************************)
EXTENDS Integers, Sequences, FiniteSets, TLC

VARIABLES
    catalog,            \* the provider: term -> page number -> response
    video_server,       \* generate_video_url's video_server argument
    orientation,        \* the orientation_landscape argument of the selector call
    plans,              \* generate_video_url's timed_video_searches argument
    pc,                 \* position in the code
    seg,                \* index of the plan the for loop of line 127 is at
    qi,                 \* index of the term the for loop of line 130 is at
    url,                \* the local url of generate_video_url / the selector's result
    used_links,         \* the registry list (used_links, alias used_vids)
    default_used_vids,  \* the list object bound to getBestVideo's default argument
    timed_video_urls,   \* the result list being built / background_video_urls
    merged,             \* app.py: background_video_urls after the merge step
    log,                \* history: one entry per getBestVideo call of the run
    prev_ids            \* history: identifiers reserved by earlier runs of the process

vars == <<catalog, video_server, orientation, plans, pc, seg, qi, url, used_links,
          default_used_vids, timed_video_urls, merged, log, prev_ids>>

---------------------------------------------------------------------------
(* Bounds of the model *)

MaxPlans == 2      \* plans per run
MaxTerms == 2      \* search terms per plan
MaxVideos == 2     \* asset records per provider page
MaxPages == 3      \* pages of results the provider holds for one term
MaxSegments == 4   \* entries of a list handed to the merge step

(* Program constants *)

TargetDuration == 15
HdWidth == 1920
HdHeight == 1080
RatioW == 16
RatioH == 9

---------------------------------------------------------------------------
(* Python values *)

None == [none |-> TRUE]
Str(tokens) == [chars |-> tokens]
JNull == [json |-> "null"]
JList(items) == [json |-> "list", items |-> items]
EmptyDict == [k \in {} |-> JNull]
HasKey(d, k) == k \in DOMAIN d

Elems(s) == {s[j] : j \in 1..Len(s)}
Abs(n) == IF n < 0 THEN -n ELSE n

(* if x: -- None and the empty string are falsy *)
Truthy(x) == x # None /\ x # Str(<<>>)

RECURSIVE FirstOccurrence(_, _, _)
FirstOccurrence(tokens, sep, from) ==
    IF from > Len(tokens) THEN 0
    ELSE IF tokens[from] = sep THEN from
    ELSE FirstOccurrence(tokens, sep, from + 1)

(* s.split(sep)[0]: the text before the first occurrence of sep, all of s
   when sep does not occur *)
SplitHead(s, sep) ==
    LET at == FirstOccurrence(s.chars, sep, 1) IN
    IF at = 0 THEN s ELSE Str(SubSeq(s.chars, 1, at - 1))

(* link.split('.hd')[0] *)
AssetId(link) == SplitHead(link, ".hd")

---------------------------------------------------------------------------
(* Provider data *)

Terms == {"a", "b"}

LinkP == Str(<<"p", ".hd", "_1920">>)
LinkP2 == Str(<<"p", ".hd", "_30fps">>)
LinkPsd == Str(<<"p", ".sd">>)
LinkQ == Str(<<"q", ".hd", "_1920">>)
LinkR == Str(<<"r">>)

File(w, h, link) == [width |-> w, height |-> h, link |-> link]
Video(w, h, d, files) ==
    [width |-> w, height |-> h, duration |-> d, video_files |-> files]

VidA == Video(1920, 1080, 15, <<File(1920, 1080, LinkP)>>)
VidB == Video(1920, 1080, 10, <<File(1920, 1080, LinkQ)>>)
VidC == Video(1920, 1080, 20, <<File(960, 540, LinkPsd), File(1920, 1080, LinkP2)>>)
VidD == Video(3840, 2160, 14, <<File(1920, 1080, LinkR)>>)
VidE == Video(1280, 720, 15, <<File(1920, 1080, LinkQ)>>)
VidF == Video(2560, 1080, 15, <<File(1920, 1080, LinkR)>>)
VidP == Video(1080, 1920, 15, <<File(1080, 1920, LinkR)>>)
NoWidth == [height |-> 1080, duration |-> 15,
            video_files |-> <<File(1920, 1080, LinkP)>>]
NoHeight == [width |-> 1920, duration |-> 15,
             video_files |-> <<File(1920, 1080, LinkP)>>]
NoDuration == [width |-> 1920, height |-> 1080,
               video_files |-> <<File(1920, 1080, LinkQ)>>]
NoFiles == [width |-> 1920, height |-> 1080, duration |-> 16]
NoLink == Video(1920, 1080, 17, <<[width |-> 1920, height |-> 1080]>>)

WellFormedVideos == {VidA, VidB, VidC, VidD, VidE, VidF, VidP}
MalformedVideos == {NoWidth, NoHeight, NoDuration, NoFiles, NoLink}
Videos == WellFormedVideos \cup MalformedVideos

(* Responses of the provider to one request *)
TransportError == [kind |-> "transport_error"]
HttpError == [kind |-> "http_status", status_code |-> 500]
Ok(body) == [kind |-> "ok", status_code |-> 200, body |-> body]
BodyWithoutVideos == Ok([total_results |-> JNull])
BodyNullVideos == Ok([videos |-> JNull])
Page(videos) == Ok([videos |-> JList(videos)])

FailedResponses == {TransportError, HttpError}

SeqsUpTo(S, n) == UNION {[1..m -> S] : m \in 0..n}


---------------------------------------------------------------------------
(* search_videos *)

(* The one request search_videos sends: query, orientation and per_page. It
   carries no page parameter, so the provider serves its first page. *)
SearchRequest(query_string, orientation_landscape) ==
    [query |-> query_string,
     orientation |-> IF orientation_landscape THEN "landscape" ELSE "portrait",
     page |-> 1]

NextPageRetry(query_string, orientation_landscape) ==
    LET req == SearchRequest(query_string, orientation_landscape)
        again == [req EXCEPT !.page = 2]
        response == catalog[req.query][req.page]
        second == catalog[again.query][again.page]
    IN  IF response.kind = "ok" THEN [requests |-> <<req>>, json |-> response.body]
        ELSE [requests |-> <<req, again>>,
              json |-> IF second.kind = "ok" THEN second.body ELSE EmptyDict]

(* search_videos: the requests it sends and the dict it returns, which is the
   JSON body of a 200 response and {} after a RequestException or any other
   status. The print and the log_response call on the way only report. *)
search_videos(query_string, orientation_landscape) ==
    LET req == SearchRequest(query_string, orientation_landscape)
        response == catalog[req.query][req.page]
    IN  [requests |-> <<req>>,
         json |-> IF response.kind = "transport_error" THEN EmptyDict
                  ELSE IF response.status_code = 200 THEN response.body
                  ELSE EmptyDict]

---------------------------------------------------------------------------
(* getBestVideo *)

MinWidth(orientation_landscape) == IF orientation_landscape THEN HdWidth ELSE HdHeight
MinHeight(orientation_landscape) == IF orientation_landscape THEN HdHeight ELSE HdWidth

(* The filter expression raises KeyError on a record without 'width', and on
   one without 'height' once the width test has passed *)
FilterRaises(video, orientation_landscape) ==
    \/ ~HasKey(video, "width")
    \/ /\ video.width >= MinWidth(orientation_landscape)
       /\ ~HasKey(video, "height")

(* width / height == 16 / 9 (height / width for portrait), on integers *)
PassesFilter(video, orientation_landscape) ==
    /\ video.width >= MinWidth(orientation_landscape)
    /\ video.height >= MinHeight(orientation_landscape)
    /\ IF orientation_landscape
       THEN video.width * RatioH = video.height * RatioW
       ELSE video.height * RatioH = video.width * RatioW

SignedDurationKey(video) == TargetDuration - video.duration

(* key=lambda x: abs(15 - int(x['duration'])); the provider's durations are
   whole seconds *)
DurationKey(video) == Abs(TargetDuration - video.duration)

RECURSIVE InsertByKey(_, _)
InsertByKey(sorted, video) ==
    IF sorted = <<>> THEN <<video>>
    ELSE LET last == sorted[Len(sorted)] IN
         IF DurationKey(last) <= DurationKey(video)
         THEN Append(sorted, video)
         ELSE Append(InsertByKey(SubSeq(sorted, 1, Len(sorted) - 1), video), last)

RECURSIVE SortedByDuration(_)
(* sorted(filtered_videos, key=...): ascending and stable *)
SortedByDuration(videos) ==
    IF videos = <<>> THEN <<>>
    ELSE InsertByKey(SortedByDuration(SubSeq(videos, 1, Len(videos) - 1)),
                     videos[Len(videos)])

Returned(value, used_vids) ==
    [outcome |-> "return", value |-> value, used_vids |-> used_vids]
Raised(used_vids) ==
    [outcome |-> "raise", value |-> None, used_vids |-> used_vids]

IgnoresRegistry(link, used_vids) == FALSE

(* link.split('.hd')[0] not in used_vids, negated *)
AlreadyUsed(link, used_vids) == AssetId(link) \in Elems(used_vids)

RECURSIVE ScanFiles(_, _, _, _)
(* The inner loop over video['video_files'], from file f on. "next": no file
   of this video was returned. *)
ScanFiles(files, f, orientation_landscape, used_vids) ==
    IF f > Len(files) THEN [outcome |-> "next", value |-> None, used_vids |-> used_vids]
    ELSE LET video_file == files[f] IN
         IF ~HasKey(video_file, "width") THEN Raised(used_vids)
         ELSE IF video_file.width # MinWidth(orientation_landscape)
         THEN ScanFiles(files, f + 1, orientation_landscape, used_vids)
         ELSE IF ~HasKey(video_file, "height") THEN Raised(used_vids)
         ELSE IF video_file.height # MinHeight(orientation_landscape)
         THEN ScanFiles(files, f + 1, orientation_landscape, used_vids)
         ELSE IF ~HasKey(video_file, "link") THEN Raised(used_vids)
         ELSE IF ~AlreadyUsed(video_file.link, used_vids)
         THEN Returned(video_file.link,
                       Append(used_vids, AssetId(video_file.link)))
         ELSE ScanFiles(files, f + 1, orientation_landscape, used_vids)

RECURSIVE ScanVideos(_, _, _, _)
(* The outer loop over sorted_videos, from video v on *)
ScanVideos(sorted_videos, v, orientation_landscape, used_vids) ==
    IF v > Len(sorted_videos) THEN Returned(None, used_vids)
    ELSE IF ~HasKey(sorted_videos[v], "video_files") THEN Raised(used_vids)
    ELSE LET r == ScanFiles(sorted_videos[v].video_files, 1,
                            orientation_landscape, used_vids)
         IN  IF r.outcome = "next"
             THEN ScanVideos(sorted_videos, v + 1, orientation_landscape, used_vids)
             ELSE r

(* getBestVideo from line 85 on, given the dict search_videos returned *)
SelectFrom(vids, orientation_landscape, used_vids) ==
    IF ~HasKey(vids, "videos") THEN Returned(None, used_vids)
    ELSE IF vids.videos = JNull THEN Raised(used_vids)
    ELSE LET videos == vids.videos.items IN
         IF \E j \in 1..Len(videos) : FilterRaises(videos[j], orientation_landscape)
         THEN Raised(used_vids)
         ELSE LET filtered_videos ==
                      SelectSeq(videos,
                                LAMBDA video : PassesFilter(video, orientation_landscape))
              IN  IF \E j \in 1..Len(filtered_videos) :
                         ~HasKey(filtered_videos[j], "duration")
                  THEN Raised(used_vids)
                  ELSE ScanVideos(SortedByDuration(filtered_videos), 1,
                                  orientation_landscape, used_vids)

(* getBestVideo: what the call does with the list passed as used_vids.
   outcome "return" with the link or None, or "raise" for an exception that
   leaves the function (TypeError on a null list, KeyError on a missing key);
   used_vids is the list after the call, requests what was sent to the
   provider. *)
getBestVideo(query_string, orientation_landscape, used_vids) ==
    LET found == search_videos(query_string, orientation_landscape)
        r == SelectFrom(found.json, orientation_landscape, used_vids)
    IN  [outcome |-> r.outcome, value |-> r.value, used_vids |-> r.used_vids,
         requests |-> found.requests]

(* One entry of the call history *)
LogEntry(s, q, query_string, orientation_landscape, used_vids, r) ==
    [seg |-> s, qi |-> q, query |-> query_string,
     landscape |-> orientation_landscape, requests |-> r.requests,
     used_before |-> used_vids, outcome |-> r.outcome, value |-> r.value,
     used_after |-> r.used_vids]

---------------------------------------------------------------------------
(* A direct call of the selector: any first page, any registry *)

IdP == AssetId(LinkP)
IdQ == AssetId(LinkQ)
IdR == AssetId(LinkR)

Registries ==
    {<<>>, <<IdP>>, <<IdQ>>, <<IdR>>, <<IdP, IdQ>>, <<IdQ, IdR>>,
     <<IdR, IdP>>, <<IdP, IdQ, IdR>>}

FirstPages ==
    FailedResponses \cup {BodyWithoutVideos, BodyNullVideos}
        \cup {Page(vs) : vs \in SeqsUpTo(Videos, MaxVideos)}

LaterPages == {TransportError, Page(<<VidB>>)}

PageLists ==
    {<<first>> \o later : first \in FirstPages,
                          later \in [1..(MaxPages - 1) -> LaterPages]}

SelInit ==
    /\ \E pages \in PageLists : catalog = [t \in Terms |-> pages]
    /\ video_server = "pexel"
    /\ orientation \in BOOLEAN
    /\ used_links \in Registries
    /\ plans = <<>>
    /\ pc = "select"
    /\ seg = 0
    /\ qi = 0
    /\ url = None
    /\ default_used_vids = <<>>
    /\ timed_video_urls = <<>>
    /\ merged = None
    /\ log = <<>>
    /\ prev_ids = {}

(* url = getBestVideo("a", orientation_landscape, used_vids=used_links) *)
SelectCall ==
    /\ pc = "select"
    /\ LET r == getBestVideo("a", orientation, used_links) IN
       /\ pc' = IF r.outcome = "raise" THEN "select_raised" ELSE "select_returned"
       /\ url' = r.value
       /\ used_links' = r.used_vids
       /\ log' = <<LogEntry(0, 0, "a", orientation, used_links, r)>>
    /\ UNCHANGED <<catalog, video_server, orientation, plans, seg, qi,
                   default_used_vids, timed_video_urls, merged, prev_ids>>

SelNext == SelectCall

SelSpec == SelInit /\ [][SelNext]_vars

---------------------------------------------------------------------------
(* generate_video_url *)

TermLists == SeqsUpTo(Terms, MaxTerms)

(* The plans of a run: ((t1, t2), search_terms) pairs on a contiguous timeline *)
PlanLists ==
    UNION {{[j \in 1..n |-> <<<<j - 1, j>>, terms[j]>>] : terms \in [1..n -> TermLists]}
               : n \in 0..MaxPlans}

(* The first pages the provider serves during runs *)
RunPages ==
    {TransportError, BodyWithoutVideos, BodyNullVideos,
     Page(<<VidA>>), Page(<<VidB, VidC>>)}

RunCatalogs == [Terms -> {<<first>> : first \in RunPages}]

Init ==
    /\ catalog \in RunCatalogs
    /\ video_server = "pexel"
    /\ orientation = TRUE
    /\ plans = <<>>
    /\ pc = "idle"
    /\ seg = 0
    /\ qi = 0
    /\ url = None
    /\ used_links = <<>>
    /\ default_used_vids = <<>>
    /\ timed_video_urls = <<>>
    /\ merged = None
    /\ log = <<>>
    /\ prev_ids = {}

(* used_links = [] *)
FreshRegistry == <<>>

(* A call of generate_video_url(timed_video_searches, video_server), up to
   the head of the loop over the plans; any other server than "pexel"
   returns the empty list at once. *)
StartRun ==
    /\ pc = "idle"
    /\ \E p \in PlanLists, server \in {"pexel", "stable_diffusion"} :
          /\ plans' = p
          /\ video_server' = server
          /\ pc' = IF server = "pexel" THEN "loop" ELSE "done"
    /\ timed_video_urls' = <<>>
    /\ used_links' = FreshRegistry
    /\ seg' = 1
    /\ qi' = 0
    /\ url' = None
    /\ log' = <<>>
    /\ UNCHANGED <<catalog, orientation, default_used_vids, merged, prev_ids>>

QueriesWithFallback(search_terms) ==
    IF search_terms = <<>> THEN <<"a">> ELSE search_terms

(* The terms the loop of line 130 queries for a plan *)
QueriesFor(search_terms) == search_terms

(* The head of the loop over the plans: url = None, then the test
   if search_terms; the function returns when the plans are exhausted *)
BeginSegment ==
    /\ pc = "loop"
    /\ IF seg > Len(plans)
       THEN /\ pc' = "done"
            /\ UNCHANGED <<url, qi>>
       ELSE /\ url' = None
            /\ IF QueriesFor(plans[seg][2]) # <<>>
               THEN pc' = "query" /\ qi' = 1
               ELSE pc' = "emit" /\ qi' = 0
    /\ UNCHANGED <<catalog, video_server, orientation, plans, seg, used_links,
                   default_used_vids, timed_video_urls, merged, log, prev_ids>>

OmittedUsedVids == "default"

(* Which list getBestVideo works on: the call passes used_vids=used_links *)
UsedVidsArgument == "used_links"

NeverBreaks(u) == FALSE

(* if url: ... break *)
BreaksOn(u) == Truthy(u)

(* One pass of the loop over the terms: the call of getBestVideo and the
   test of its result *)
TryTerm ==
    /\ pc = "query"
    /\ LET queries == QueriesFor(plans[seg][2])
           passed == IF UsedVidsArgument = "used_links"
                     THEN used_links ELSE default_used_vids
           r == getBestVideo(queries[qi], TRUE, passed)
           links_after == IF UsedVidsArgument = "used_links"
                          THEN r.used_vids ELSE used_links
       IN  /\ log' = Append(log, LogEntry(seg, qi, queries[qi], TRUE, passed, r))
           /\ default_used_vids' = IF UsedVidsArgument = "used_links"
                                   THEN default_used_vids ELSE r.used_vids
           /\ IF r.outcome = "raise"
              THEN /\ pc' = "raised"
                   /\ used_links' = links_after
                   /\ UNCHANGED <<url, qi>>
              ELSE /\ url' = r.value
                   /\ IF BreaksOn(r.value)
                      THEN /\ used_links' = Append(links_after, AssetId(r.value))
                           /\ pc' = "emit"
                           /\ qi' = qi
                      ELSE /\ used_links' = links_after
                           /\ IF qi < Len(queries)
                              THEN pc' = "query" /\ qi' = qi + 1
                              ELSE pc' = "emit" /\ qi' = qi
    /\ UNCHANGED <<catalog, video_server, orientation, plans, seg,
                   timed_video_urls, merged, prev_ids>>

SkipsUnassigned(urls, interval, u) ==
    IF u = None THEN urls ELSE Append(urls, <<interval, u>>)

(* timed_video_urls.append([[t1, t2], url]) *)
Appended(urls, interval, u) == Append(urls, <<interval, u>>)

(* The end of one pass of the loop over the plans *)
EmitSegment ==
    /\ pc = "emit"
    /\ timed_video_urls' = Appended(timed_video_urls, plans[seg][1], url)
    /\ seg' = seg + 1
    /\ pc' = "loop"
    /\ UNCHANGED <<catalog, video_server, orientation, plans, qi, url, used_links,
                   default_used_vids, merged, log, prev_ids>>

(* The call is over, by return or by an exception the caller catches
   (src/app.py line 104, generate_video_from_article line 166): its locals
   are gone, and the process may start another run. *)
EndRun ==
    /\ pc \in {"done", "raised"}
    /\ pc' = "idle"
    /\ plans' = <<>>
    /\ video_server' = "pexel"
    /\ seg' = 0
    /\ qi' = 0
    /\ url' = None
    /\ used_links' = <<>>
    /\ timed_video_urls' = <<>>
    /\ log' = <<>>
    /\ prev_ids' = prev_ids \cup Elems(used_links) \cup Elems(default_used_vids)
    /\ UNCHANGED <<catalog, orientation, default_used_vids, merged>>

Next == StartRun \/ BeginSegment \/ TryTerm \/ EmitSegment \/ EndRun

Spec == Init /\ [][Next]_vars

---------------------------------------------------------------------------
(* The merge step of generate_video_from_article (src/app.py) *)

Start(entry) == entry[1][1]
End(entry) == entry[1][2]
Asset(entry) == entry[2]

Unmerged(segments) == segments

RECURSIVE BackwardOnly(_, _, _)
BackwardOnly(segments, j, out) ==
    IF j > Len(segments) THEN out
    ELSE IF Asset(segments[j]) # None
    THEN BackwardOnly(segments, j + 1, Append(out, segments[j]))
    ELSE IF out = <<>> THEN BackwardOnly(segments, j + 1, out)
    ELSE LET last == out[Len(out)] IN
         BackwardOnly(segments, j + 1,
                      [out EXCEPT ![Len(out)] =
                           <<<<Start(last), End(segments[j])>>, Asset(last)>>])

DropsLeadingRun(segments) ==
    IF \A j \in 1..Len(segments) : Asset(segments[j]) = None THEN segments
    ELSE BackwardOnly(segments, 1, <<>>)

RECURSIVE MergeFrom(_, _, _)
(* The scan from entry j on, out being the merged entries so far: an
   unassigned entry extends the end of the assigned entry before it; the
   first assigned entry takes over the start of the timeline when
   unassigned entries precede it. *)
MergeFrom(segments, j, out) ==
    IF j > Len(segments) THEN out
    ELSE IF Asset(segments[j]) # None
    THEN MergeFrom(segments, j + 1,
                   Append(out, IF out = <<>>
                               THEN <<<<Start(segments[1]), End(segments[j])>>,
                                      Asset(segments[j])>>
                               ELSE segments[j]))
    ELSE IF out = <<>> THEN MergeFrom(segments, j + 1, out)
    ELSE LET last == out[Len(out)] IN
         MergeFrom(segments, j + 1,
                   [out EXCEPT ![Len(out)] =
                        <<<<Start(last), End(segments[j])>>, Asset(last)>>])

(* merge_empty_intervals: a list without any assigned entry is returned as
   it is *)
merge_empty_intervals(segments) ==
    IF \A j \in 1..Len(segments) : Asset(segments[j]) = None THEN segments
    ELSE MergeFrom(segments, 1, <<>>)

(* Timelines of n intervals of length 1 from time 0 on; gaps[j] is the
   distance between interval j and the one after it *)
RECURSIVE StartOf(_, _)
StartOf(gaps, j) == IF j = 1 THEN 0 ELSE StartOf(gaps, j - 1) + 1 + gaps[j - 1]

AssignmentLists ==
    UNION {{[j \in 1..n |-> <<<<StartOf(gaps, j), StartOf(gaps, j) + 1>>, assets[j]>>] :
                assets \in [1..n -> {None, LinkP, LinkQ}],
                gaps \in [1..n -> {0, 1}]}
               : n \in 0..MaxSegments}

MergeInit ==
    /\ catalog = [t \in Terms |-> <<TransportError>>]
    /\ video_server = "pexel"
    /\ orientation = TRUE
    /\ plans = <<>>
    /\ pc = "merge"
    /\ seg = 0
    /\ qi = 0
    /\ url = None
    /\ used_links = <<>>
    /\ default_used_vids = <<>>
    /\ timed_video_urls \in AssignmentLists
    /\ merged = None
    /\ log = <<>>
    /\ prev_ids = {}

(* if background_video_urls:
       background_video_urls = merge_empty_intervals(background_video_urls) *)
MergeStep ==
    /\ pc = "merge"
    /\ merged' = IF timed_video_urls # <<>>
                 THEN merge_empty_intervals(timed_video_urls)
                 ELSE timed_video_urls
    /\ pc' = "merge_done"
    /\ UNCHANGED <<catalog, video_server, orientation, plans, seg, qi, url,
                   used_links, default_used_vids, timed_video_urls, log, prev_ids>>

MergeNext == MergeStep

MergeSpec == MergeInit /\ [][MergeNext]_vars

---------------------------------------------------------------------------
(* Properties of the selector *)

LogEntries == Elems(log)

(* The asset records the provider's page holds, <<>> when it holds none *)
RecordsOf(response) ==
    IF response.kind # "ok" THEN <<>>
    ELSE IF ~HasKey(response.body, "videos") THEN <<>>
    ELSE IF response.body.videos = JNull THEN <<>>
    ELSE response.body.videos.items

UsableFile(video_file, landscape, used) ==
    /\ HasKey(video_file, "width") /\ HasKey(video_file, "height")
    /\ HasKey(video_file, "link")
    /\ video_file.width = MinWidth(landscape)
    /\ video_file.height = MinHeight(landscape)
    /\ AssetId(video_file.link) \notin Elems(used)

(* A candidate that passes the orientation/resolution filter and has a
   variant of the wanted resolution whose identifier is not in the registry *)
Eligible(video, landscape, used) ==
    /\ HasKey(video, "width") /\ HasKey(video, "height")
    /\ HasKey(video, "duration") /\ HasKey(video, "video_files")
    /\ PassesFilter(video, landscape)
    /\ \E f \in 1..Len(video.video_files) :
           UsableFile(video.video_files[f], landscape, used)

(* The link such a candidate offers: its first usable variant *)
OfferedLink(video, landscape, used) ==
    LET usable == {f \in 1..Len(video.video_files) :
                       UsableFile(video.video_files[f], landscape, used)}
        first == CHOOSE f \in usable : \A g \in usable : f <= g
    IN  video.video_files[first].link

Distance(video) ==
    IF video.duration >= TargetDuration
    THEN video.duration - TargetDuration
    ELSE TargetDuration - video.duration

EligibleIndexes(e, page) ==
    LET records == RecordsOf(catalog[e.query][page]) IN
    {j \in 1..Len(records) : Eligible(records[j], e.landscape, e.used_before)}

(* C10: a call that returns a link returns the link offered by an eligible
   unused candidate of the page such that no other eligible unused candidate
   is strictly closer to the target duration, or equally close and earlier
   in the provider's order; a call that returns None had no eligible unused
   candidate. *)
C10_ReturnsFirstRanked ==
    \A e \in LogEntries :
        e.outcome = "return" =>
            LET records == RecordsOf(catalog[e.query][1])
                eligible == EligibleIndexes(e, 1)
            IN  IF e.value = None THEN eligible = {}
                ELSE \E j \in eligible :
                        /\ OfferedLink(records[j], e.landscape, e.used_before) = e.value
                        /\ \A m \in eligible :
                              \/ Distance(records[m]) > Distance(records[j])
                              \/ /\ Distance(records[m]) = Distance(records[j])
                                 /\ m >= j

(* A call returned the second record of the page although the first one was
   eligible and unused too: the second is closer to the target duration. *)
C10_Witness ==
    \E e \in LogEntries :
        /\ e.outcome = "return" /\ e.value # None
        /\ {1, 2} \subseteq EligibleIndexes(e, 1)
        /\ LET records == RecordsOf(catalog[e.query][1]) IN
           /\ OfferedLink(records[2], e.landscape, e.used_before) = e.value
           /\ OfferedLink(records[1], e.landscape, e.used_before) # e.value
           /\ Distance(records[2]) < Distance(records[1])

FirstPageFailed(e) == catalog[e.query][1] \in FailedResponses

LaterPageHasCandidate(e) ==
    \E page \in 2..MaxPages : EligibleIndexes(e, page) # {}

(* C6 as stated: at most max_pages pages are requested for one term, and
   when the request for page 1 fails while a later page within max_pages
   holds an eligible unused candidate, the selector returns a candidate. *)
C6_LaterPageRescues ==
    \A e \in LogEntries :
        /\ Len(e.requests) <= MaxPages
        /\ (FirstPageFailed(e) /\ LaterPageHasCandidate(e))
               => (e.outcome = "return" /\ e.value # None)

(* C6 amended: the selector sends exactly one request per term, for the
   provider's first page; when that request fails the call returns None and
   leaves the registry as it was, whatever later pages hold; a link it
   returns is one of the first page. *)
C6_SinglePageOnly ==
    \A e \in LogEntries :
        /\ Len(e.requests) = 1
        /\ e.requests[1].page = 1
        /\ FirstPageFailed(e) =>
               (e.outcome = "return" /\ e.value = None /\ e.used_after = e.used_before)
        /\ (e.outcome = "return" /\ e.value # None) =>
               \E j \in EligibleIndexes(e, 1) :
                   OfferedLink(RecordsOf(catalog[e.query][1])[j],
                               e.landscape, e.used_before) = e.value

(* The request for page 1 failed, a later page held an eligible unused
   candidate, and the call returned None. *)
C6_Witness ==
    \E e \in LogEntries :
        /\ FirstPageFailed(e) /\ LaterPageHasCandidate(e)
        /\ e.outcome = "return" /\ e.value = None

---------------------------------------------------------------------------
(* Properties of a run of generate_video_url *)

InRun == pc \in {"loop", "query", "emit", "done"} /\ video_server = "pexel"
RunReturned == pc = "done" /\ video_server = "pexel"

CallsFor(j) == {n \in 1..Len(log) : log[n].seg = j}

(* C1: the run emits one [[start, end], asset-or-None] entry per plan, in
   the order of the plans, each with the start and end of the plan at its
   position: while the run is under way the result is such a list for the
   plans already processed, and the returned list has one entry per plan. *)
C1_OneEntryPerPlan ==
    InRun =>
        /\ Len(timed_video_urls) <= Len(plans)
        /\ pc \in {"loop", "done"} => Len(timed_video_urls) = seg - 1
        /\ pc = "done" => Len(timed_video_urls) = Len(plans)
        /\ \A j \in 1..Len(timed_video_urls) :
              /\ Len(timed_video_urls[j]) = 2
              /\ timed_video_urls[j][1] = plans[j][1]

(* A run returned for two plans or more, one with no terms and one whose
   every query came back with nothing. *)
C1_Witness ==
    /\ RunReturned
    /\ Len(timed_video_urls) >= 2
    /\ \E j \in 1..Len(plans) : plans[j][2] = <<>>
    /\ \E j \in 1..Len(plans) :
          /\ plans[j][2] # <<>>
          /\ timed_video_urls[j][2] = None

(* C2: no two entries of a run's result hold links with the same
   identifier (the link before '.hd'), and the selector never returns a
   link whose identifier was in the registry it was given. *)
C2_NoAssetTwice ==
    InRun =>
        /\ \A j, k \in 1..Len(timed_video_urls) :
              (j # k /\ timed_video_urls[j][2] # None /\ timed_video_urls[k][2] # None)
                  => AssetId(timed_video_urls[j][2]) # AssetId(timed_video_urls[k][2])
        /\ \A e \in LogEntries :
              e.value # None => AssetId(e.value) \notin Elems(e.used_before)

(* The provider offered for a later term a usable variant of an asset
   that was in the registry already, and the run returned with two
   assigned entries. *)
C2_Witness ==
    /\ RunReturned
    /\ \E j, k \in 1..Len(timed_video_urls) :
          j # k /\ timed_video_urls[j][2] # None /\ timed_video_urls[k][2] # None
    /\ \E e \in LogEntries :
          LET records == RecordsOf(catalog[e.query][1]) IN
          \E v \in 1..Len(records) : \E f \in 1..Len(records[v].video_files) :
              /\ UsableFile(records[v].video_files[f], TRUE, <<>>)
              /\ AssetId(records[v].video_files[f].link) \in Elems(e.used_before)

(* C5: a plan with an empty term list is emitted with None, and no
   getBestVideo call, hence no provider request, is made for it. *)
C5_EmptyTermsNoCall ==
    InRun =>
        \A j \in 1..Len(plans) :
            plans[j][2] = <<>> =>
                /\ CallsFor(j) = {}
                /\ j <= Len(timed_video_urls) => timed_video_urls[j][2] = None
                /\ (seg = j /\ pc = "emit") => url = None

(* A plan with no terms was emitted after an earlier plan had put an
   identifier into the registry. *)
C5_Witness ==
    /\ InRun
    /\ used_links # <<>>
    /\ \E j \in 2..Len(timed_video_urls) :
          /\ plans[j][2] = <<>>
          /\ timed_video_urls[j - 1][2] # None

ProviderFailure(response) ==
    \/ response \in FailedResponses
    \/ /\ response.kind = "ok"
       /\ \/ ~HasKey(response.body, "videos")
          \/ response.body.videos = JNull
          \/ \E v \in 1..Len(response.body.videos.items) :
                LET record == response.body.videos.items[v] IN
                \/ \E key \in {"width", "height", "duration", "video_files"} :
                       ~HasKey(record, key)
                \/ \E f \in 1..Len(record.video_files) :
                       ~HasKey(record.video_files[f], "link")

(* C7: whatever the provider's failure (transport failure, non-success
   status, a body without the asset list, a null asset list, a record
   without an expected field), the selector returns None without raising
   and leaves the registry unchanged, and the run completes with one entry
   per plan. *)
C7_FailuresAbsorbed ==
    /\ pc # "raised"
    /\ \A e \in LogEntries :
          ProviderFailure(catalog[e.query][1]) =>
              /\ e.outcome = "return"
              /\ e.value = None
              /\ e.used_after = e.used_before
    /\ RunReturned => Len(timed_video_urls) = Len(plans)

(* C8: the terms of a plan are queried in their order, term i+1 only after
   term i came back with nothing; the first term that yields a link fixes
   the entry and is the last one queried for the plan; an entry is None
   only when every term of the plan was queried and came back with
   nothing. *)
C8_TermsInRankedOrder ==
    InRun =>
        /\ \A n \in 1..Len(log) :
              LET e == log[n] IN
              /\ e.seg \in 1..Len(plans)
              /\ e.qi \in 1..Len(plans[e.seg][2])
              /\ e.query = plans[e.seg][2][e.qi]
              /\ e.qi = 1 => (n = 1 \/ log[n - 1].seg < e.seg)
              /\ e.qi > 1 => /\ n > 1
                             /\ log[n - 1].seg = e.seg
                             /\ log[n - 1].qi = e.qi - 1
                             /\ log[n - 1].value = None
        /\ pc = "query" =>
              /\ Cardinality(CallsFor(seg)) = qi - 1
              /\ \A n \in CallsFor(seg) : log[n].value = None
        /\ \A j \in 1..Len(timed_video_urls) :
              IF timed_video_urls[j][2] # None
              THEN \E n \in CallsFor(j) :
                      /\ log[n].value = timed_video_urls[j][2]
                      /\ \A m \in CallsFor(j) : m <= n /\ (m < n => log[m].value = None)
              ELSE /\ Cardinality(CallsFor(j)) = Len(plans[j][2])
                   /\ \A m \in CallsFor(j) : log[m].value = None

(* One plan was assigned by its second term after the first came back with
   nothing, and another plan of two terms was assigned by its first term
   with no call for its second. *)
C8_Witness ==
    /\ RunReturned
    /\ \E n \in 1..Len(log) : log[n].qi = 2 /\ log[n].value # None
    /\ \E j \in 1..Len(plans) :
          /\ Len(plans[j][2]) >= 2
          /\ Cardinality(CallsFor(j)) = 1
          /\ timed_video_urls[j][2] # None

IsPrefix(s, t) == Len(s) <= Len(t) /\ SubSeq(t, 1, Len(s)) = s

RECURSIVE FirstYield(_, _, _)
(* What the terms from k on yield against the registry used: the first
   link a term yields, and the registry afterwards *)
FirstYield(search_terms, k, used) ==
    IF k > Len(search_terms) THEN [value |-> None, used |-> used]
    ELSE LET r == getBestVideo(search_terms[k], TRUE, used) IN
         IF r.value # None
         THEN [value |-> r.value, used |-> Append(r.used_vids, AssetId(r.value))]
         ELSE FirstYield(search_terms, k + 1, r.used_vids)

RECURSIVE AssignedFrom(_, _, _)
(* The entries for the plans from j on, against the registry used *)
AssignedFrom(p, j, used) ==
    IF j > Len(p) THEN <<>>
    ELSE LET y == FirstYield(p[j][2], 1, used) IN
         <<<<p[j][1], y.value>>>> \o AssignedFrom(p, j + 1, y.used)

(* C9: every run starts with an empty registry, the registry only grows
   during the run, nothing a run reserved outlives it, and whatever ran
   before, the run returns what its plans and the provider's responses
   yield from an empty registry. *)
C9_RegistryPerRun ==
    /\ default_used_vids = <<>>
    /\ pc = "idle" => used_links = <<>>
    /\ InRun =>
          /\ (pc = "loop" /\ seg = 1) => used_links = <<>>
          /\ \A n \in 1..Len(log) :
                /\ IsPrefix(log[n].used_before, log[n].used_after)
                /\ n = 1 => log[n].used_before = <<>>
                /\ n > 1 => IsPrefix(log[n - 1].used_after, log[n].used_before)
                /\ IsPrefix(log[n].used_after, used_links)
          /\ pc = "done" => timed_video_urls = AssignedFrom(plans, 1, <<>>)

(* A run returned with an entry whose identifier an earlier run of the
   same process had reserved. *)
C9_Witness ==
    /\ RunReturned
    /\ \E j \in 1..Len(timed_video_urls) :
          /\ timed_video_urls[j][2] # None
          /\ AssetId(timed_video_urls[j][2]) \in prev_ids

---------------------------------------------------------------------------
(* Properties of the merge step *)

AssignedIndexes(segments) == {j \in 1..Len(segments) : Asset(segments[j]) # None}

(* The k-th assigned entry of the list, and the entry after the end of the
   list when there are fewer *)
KthAssigned(segments, k) ==
    LET A == AssignedIndexes(segments) IN
    IF k > Cardinality(A) THEN Len(segments) + 1
    ELSE CHOOSE p \in A : Cardinality({q \in A : q <= p}) = k

(* C3: when some entry is assigned, the merged list holds the assigned
   entries in their order, each with its end moved to the end of the run of
   unassigned entries that follows it, and the first with its start moved
   back to the start of the run that begins the list; so every merged entry
   has an asset. A list with no assigned entry is returned unchanged. *)
C3_RunsFolded ==
    pc = "merge_done" =>
        LET A == AssignedIndexes(timed_video_urls) IN
        IF A = {} THEN merged = timed_video_urls
        ELSE /\ Len(merged) = Cardinality(A)
             /\ \A k \in 1..Len(merged) :
                   LET p == KthAssigned(timed_video_urls, k)
                       after == KthAssigned(timed_video_urls, k + 1)
                   IN  /\ Asset(merged[k]) = Asset(timed_video_urls[p])
                       /\ Asset(merged[k]) # None
                       /\ End(merged[k]) = End(timed_video_urls[after - 1])
                       /\ Start(merged[k]) =
                              IF k = 1 THEN Start(timed_video_urls[1])
                              ELSE Start(timed_video_urls[p])

(* A list that starts with an unassigned entry and has another between two
   assigned entries was merged into two entries. *)
C3_Witness ==
    /\ pc = "merge_done"
    /\ Len(timed_video_urls) = 4
    /\ Asset(timed_video_urls[1]) = None /\ Asset(timed_video_urls[2]) # None
    /\ Asset(timed_video_urls[3]) = None /\ Asset(timed_video_urls[4]) # None
    /\ Len(merged) = 2
    /\ Start(merged[1]) = Start(timed_video_urls[1])
    /\ End(merged[1]) = End(timed_video_urls[3])

Contiguous(segments) ==
    \A j \in 1..(Len(segments) - 1) : End(segments[j]) = Start(segments[j + 1])

StartOrdered(segments) ==
    \A j \in 1..(Len(segments) - 1) : Start(segments[j]) < Start(segments[j + 1])

(* C4: for a contiguous list ordered by start with an assigned entry, the
   merged list is ordered by start, each of its entries ends where the next
   one starts, it starts at the least start of the input and ends at the
   greatest end of the input. *)
C4_TotalCoverage ==
    (/\ pc = "merge_done"
     /\ Contiguous(timed_video_urls) /\ StartOrdered(timed_video_urls)
     /\ AssignedIndexes(timed_video_urls) # {})
        => /\ merged # <<>>
           /\ StartOrdered(merged)
           /\ Contiguous(merged)
           /\ \A j \in 1..Len(timed_video_urls) :
                 /\ Start(merged[1]) <= Start(timed_video_urls[j])
                 /\ End(merged[Len(merged)]) >= End(timed_video_urls[j])
           /\ \E j \in 1..Len(timed_video_urls) :
                 Start(merged[1]) = Start(timed_video_urls[j])
           /\ \E j \in 1..Len(timed_video_urls) :
                 End(merged[Len(merged)]) = End(timed_video_urls[j])

(* A contiguous list with unassigned entries at its start and at its end
   was merged into fewer entries. *)
C4_Witness ==
    /\ pc = "merge_done"
    /\ Len(timed_video_urls) >= 4
    /\ Contiguous(timed_video_urls) /\ StartOrdered(timed_video_urls)
    /\ Asset(timed_video_urls[1]) = None
    /\ Asset(timed_video_urls[Len(timed_video_urls)]) = None
    /\ Len(merged) = 2

==========================================================================
